---- MODULE Spec2Model ----
(***************************************************************************)
(* Model of the storm-tracker pipeline (src/fetcher.py, src/main.py):      *)
(* discovery of active storms, per-storm resolution of the advisory file,  *)
(* parsing of ATCF text, and aggregation into a GeoJSON FeatureCollection. *)
(*                                                                         *)
(* Text is modelled as a sequence of one-character strings.  Coordinates   *)
(* are kept in tenths of a degree (the integer the code divides by 10.0),  *)
(* so 15.0 degrees is 150 and -70.0 degrees is -700.                       *)
(***************************************************************************)
EXTENDS Integers, Sequences, FiniteSets, TLC

VARIABLES
    pc,             \* position of the running call
    data_text,      \* parse_atcf_text: the advisory text handed to the parser
    parsed,         \* parse_atcf_text: the list of features it returned
    html_content,   \* get_cira_active_storms: the answer of the index fetch
    unique_storms,  \* get_cira_active_storms: the list it returned
    active_storms,  \* scrape_cira_data: the discovered storms being looped over
    k,              \* scrape_cira_data: index of the storm being processed
    full_atcf_url,  \* scrape_cira_data: the advisory address resolved for storm k
    cira_features,  \* scrape_cira_data: its all_features list
    all_features,   \* combine_all_data: its all_features list
    raised,         \* the exception propagating out of the current frame, or "none"
    response,       \* get_storms: the value handed to the caller
    fetched,        \* history: every requests.get made, in order
    outcome         \* history: per storm, what its fetches returned and what it added

vars == <<pc, data_text, parsed, html_content, unique_storms, active_storms, k,
          full_atcf_url, cira_features, all_features, raised, response, fetched,
          outcome>>

-----------------------------------------------------------------------------
(* Bounds of the model *)

MaxLines == 3          \* lines of an advisory document (parser specification)
MaxAnchors == 3        \* storm anchors of a listing document (discovery specification)
MaxStorms == 2         \* storm anchors of the listing the pipeline fetches

-----------------------------------------------------------------------------
(* Python string primitives *)

Digits == {"0", "1", "2", "3", "4", "5", "6", "7", "8", "9"}
Upper == {"A", "B", "C", "D", "E", "F", "G", "H", "I", "J", "K", "L", "M",
          "N", "O", "P", "Q", "R", "S", "T", "U", "V", "W", "X", "Y", "Z"}
Whitespace == {" ", "\n", "\t"}

DigitVal(c) ==
    CASE c = "0" -> 0 [] c = "1" -> 1 [] c = "2" -> 2 [] c = "3" -> 3
      [] c = "4" -> 4 [] c = "5" -> 5 [] c = "6" -> 6 [] c = "7" -> 7
      [] c = "8" -> 8 [] c = "9" -> 9

\* str.isdigit(): non-empty and every character a digit
IsDigit(s) == Len(s) > 0 /\ \A i \in 1..Len(s) : s[i] \in Digits

\* int(s) of a digit string
RECURSIVE ToInt(_)
ToInt(s) ==
    IF s = <<>> THEN 0
    ELSE ToInt(SubSeq(s, 1, Len(s) - 1)) * 10 + DigitVal(s[Len(s)])

\* str.strip(): leading and trailing whitespace removed
RECURSIVE LStrip(_)
LStrip(s) == IF s # <<>> /\ Head(s) \in Whitespace THEN LStrip(Tail(s)) ELSE s

RECURSIVE RStrip(_)
RStrip(s) ==
    IF s # <<>> /\ s[Len(s)] \in Whitespace THEN RStrip(SubSeq(s, 1, Len(s) - 1)) ELSE s

Strip(s) == RStrip(LStrip(s))

\* str.find(sep) from position i on, 0 when there is none
RECURSIVE Find(_, _, _)
Find(s, sep, i) ==
    IF i > Len(s) THEN 0 ELSE IF s[i] = sep THEN i ELSE Find(s, sep, i + 1)

\* str.split(sep) for a one-character separator; "".split(sep) is [""]
RECURSIVE Split(_, _)
Split(s, sep) ==
    LET i == Find(s, sep, 1)
    IN  IF i = 0 THEN <<s>>
        ELSE <<SubSeq(s, 1, i - 1)>> \o Split(SubSeq(s, i + 1, Len(s)), sep)

\* sep.join(parts)
RECURSIVE Join(_, _)
Join(parts, sep) ==
    IF parts = <<>> THEN <<>>
    ELSE IF Len(parts) = 1 THEN parts[1]
    ELSE parts[1] \o sep \o Join(Tail(parts), sep)

\* reversed(seq)
Reversed(seq) == [i \in 1..Len(seq) |-> seq[Len(seq) + 1 - i]]

\* float(s) for the decimal literals of the model's inputs: surrounding
\* whitespace is ignored, an optional sign, then digits.  Anything else raises
\* ValueError (ok = FALSE).  The value is returned as an integer.
Float(s) ==
    LET t == Strip(s)
        signed == Len(t) > 0 /\ t[1] \in {"-", "+"}
        body == IF signed THEN Tail(t) ELSE t
    IN  IF IsDigit(body)
        THEN [ok |-> TRUE,
              val |-> IF signed /\ t[1] = "-" THEN 0 - ToInt(body) ELSE ToInt(body)]
        ELSE [ok |-> FALSE, val |-> 0]

-----------------------------------------------------------------------------
(* datetime.strptime(time_str, '%Y%m%d%H') on a digit string *)

IsLeap(y) == (y % 4 = 0 /\ y % 100 # 0) \/ y % 400 = 0

DaysInMonth(y, m) ==
    IF m = 2 THEN (IF IsLeap(y) THEN 29 ELSE 28)
    ELSE IF m \in {4, 6, 9, 11} THEN 30 ELSE 31

\* the directive's regular expression, by the width it takes:
\* %m is 1[0-2]|0[1-9]|[1-9], %d is 3[01]|[12]\d|0[1-9]|[1-9], %H is 2[0-3]|[0-1]\d|\d
MonthMatches(t) ==
    IF Len(t) = 2
    THEN (t[1] = "1" /\ t[2] \in {"0", "1", "2"}) \/ (t[1] = "0" /\ t[2] \in Digits \ {"0"})
    ELSE Len(t) = 1 /\ t[1] \in Digits \ {"0"}

DayMatches(t) ==
    IF Len(t) = 2
    THEN \/ (t[1] = "3" /\ t[2] \in {"0", "1"})
         \/ (t[1] \in {"1", "2"} /\ t[2] \in Digits)
         \/ (t[1] = "0" /\ t[2] \in Digits \ {"0"})
    ELSE Len(t) = 1 /\ t[1] \in Digits \ {"0"}

HourMatches(t) ==
    IF Len(t) = 2
    THEN (t[1] = "2" /\ t[2] \in {"0", "1", "2", "3"}) \/ (t[1] \in {"0", "1"} /\ t[2] \in Digits)
    ELSE Len(t) = 1 /\ t[1] \in Digits

\* widths <<m, d, H>> in the order the regular expression tries them
FieldWidths == << <<2, 2, 2>>, <<2, 2, 1>>, <<2, 1, 2>>, <<2, 1, 1>>,
                  <<1, 2, 2>>, <<1, 2, 1>>, <<1, 1, 2>>, <<1, 1, 1>> >>

WidthsMatch(s, w) ==
    /\ Len(s) >= 4 + w[1] + w[2] + w[3]
    /\ IsDigit(SubSeq(s, 1, 4))
    /\ MonthMatches(SubSeq(s, 5, 4 + w[1]))
    /\ DayMatches(SubSeq(s, 5 + w[1], 4 + w[1] + w[2]))
    /\ HourMatches(SubSeq(s, 5 + w[1] + w[2], 4 + w[1] + w[2] + w[3]))

\* the first match is the one taken; data left over after it, or a date that
\* does not exist, raises ValueError (ok = FALSE)
strptime(s) ==
    LET hits == {i \in 1..Len(FieldWidths) : WidthsMatch(s, FieldWidths[i])}
    IN  IF hits = {} THEN [ok |-> FALSE, val |-> <<>>]
        ELSE LET w == FieldWidths[CHOOSE i \in hits : \A j \in hits : i <= j]
                 y == ToInt(SubSeq(s, 1, 4))
                 m == ToInt(SubSeq(s, 5, 4 + w[1]))
                 d == ToInt(SubSeq(s, 5 + w[1], 4 + w[1] + w[2]))
                 h == ToInt(SubSeq(s, 5 + w[1] + w[2], 4 + w[1] + w[2] + w[3]))
             IN  IF /\ Len(s) = 4 + w[1] + w[2] + w[3]
                    /\ y >= 1
                    /\ d <= DaysInMonth(y, m)
                 THEN [ok |-> TRUE, val |-> <<y, m, d, h>>]
                 ELSE [ok |-> FALSE, val |-> <<>>]

-----------------------------------------------------------------------------
(* parse_atcf_text *)

RecordKinds == {<<"A", "D", "J">>, <<"F", "I", "X">>, <<"B", "E", "S", "T">>}

\* datetime.utcnow().isoformat() + "Z": the clock is not modelled, the text
\* stands for whatever the time of the call was
UtcNow == <<"u", "t", "c", "n", "o", "w", "Z">>

DigitChar(n) ==
    CASE n = 0 -> "0" [] n = 1 -> "1" [] n = 2 -> "2" [] n = 3 -> "3"
      [] n = 4 -> "4" [] n = 5 -> "5" [] n = 6 -> "6" [] n = 7 -> "7"
      [] n = 8 -> "8" [] n = 9 -> "9"

\* n written with `width` digits, zero-padded
RECURSIVE Padded(_, _)
Padded(n, width) ==
    IF width = 0 THEN <<>>
    ELSE Padded(n \div 10, width - 1) \o <<DigitChar(n % 10)>>

\* datetime.isoformat() of a whole hour: YYYY-MM-DDTHH:00:00
isoformat(t) ==
    Padded(t[1], 4) \o <<"-">> \o Padded(t[2], 2) \o <<"-">> \o Padded(t[3], 2)
        \o <<"T">> \o Padded(t[4], 2) \o <<":", "0", "0", ":", "0", "0">>

\* line 82: the fields of a line
Parts(line) ==
    LET raw == Split(line, ",") IN [i \in 1..Len(raw) |-> Strip(raw[i])]

\* line 85: a complete line of a known record kind (parts[2], parts[4] are
\* the third and fifth fields)
IsCandidate(parts) ==
    /\ Len(parts) >= 10
    /\ IsDigit(parts[3])
    /\ Strip(parts[5]) \in RecordKinds

\* lines 96-98 and 101-103: the last character is dropped, the rest read as a
\* number of tenths, negated when the field ends with `neg`
Coordinate(str, neg) ==
    LET f == Float(SubSeq(str, 1, Len(str) - 1))
        ends == Len(str) > 0 /\ str[Len(str)] = neg
    IN  [ok |-> f.ok, val |-> IF ends THEN 0 - f.val ELSE f.val]

\* lines 87-107: the conversions inside the try block; ok = FALSE when one raises
Convert(parts) ==
    LET max_wind_kts == IF IsDigit(parts[9]) THEN ToInt(parts[9]) ELSE 0
        lat == Coordinate(Strip(parts[7]), "S")
        lon == Coordinate(Strip(parts[8]), "W")
        time == strptime(Strip(parts[3]))
    IN  [ok |-> lat.ok /\ lon.ok /\ time.ok,
         lat_val |-> lat.val, lon_val |-> lon.val,
         max_wind_kts |-> max_wind_kts,
         advisory_time |-> IF time.ok THEN isoformat(time.val) \o <<"Z">> ELSE <<>>]

\* lines 109-119
FixFeature(c, identifier, storm_name, agency) ==
    [type |-> "Feature",
     geometry |-> [type |-> "Point", coordinates |-> <<c.lon_val, c.lat_val>>],
     properties |-> [stormId |-> identifier,
                     stormName |-> storm_name,
                     maxWindKts |-> c.max_wind_kts,
                     advisoryTime |-> c.advisory_time,
                     source_agency |-> agency]]

\* lines 131-140
NoDataSuffix == <<")", " ", "-", " ", "N", "O", " ", "D", "A", "T", "A">>

NoDataFeature(storm_name, agency) ==
    [type |-> "Feature",
     geometry |-> [type |-> "Point", coordinates |-> <<0, 0>>],
     properties |-> [stormName |-> storm_name \o <<" ", "(">> \o agency \o NoDataSuffix,
                     maxWindKts |-> 0,
                     advisoryTime |-> UtcNow,
                     source_agency |-> agency]]

\* lines 81-127: the loop over `lines`; the first line that is a candidate
\* and converts is appended and ends the loop, every other line is passed over
RECURSIVE ScanLines(_, _, _, _)
ScanLines(lines, identifier, storm_name, agency) ==
    IF lines = <<>> THEN <<>>
    ELSE LET parts == Parts(Head(lines))
         IN  IF IsCandidate(parts) /\ Convert(parts).ok
             THEN <<FixFeature(Convert(parts), identifier, storm_name, agency)>>
             ELSE ScanLines(Tail(lines), identifier, storm_name, agency)

\* line 81: the order in which the lines are visited
LineOrder_forward(data_text_) == Split(Strip(data_text_), "\n")
LineOrder(data_text_) == Reversed(Split(Strip(data_text_), "\n"))

\* lines 129-140: what is returned when the loop found nothing
IfNoFeatures_nothing(features, storm_name, agency) == features
IfNoFeatures(features, storm_name, agency) ==
    IF features = <<>> THEN <<NoDataFeature(storm_name, agency)>> ELSE features

parse_atcf_text(data_text_, identifier, storm_name, agency) ==
    IfNoFeatures(ScanLines(LineOrder(data_text_), identifier, storm_name, agency),
                 storm_name, agency)

-----------------------------------------------------------------------------
(* Advisory documents given to the parser *)

\* one advisory line: ten comma-separated fields, the third the date-hour,
\* the fifth the record kind, then latitude, longitude and wind at 7, 8, 9
AtcfLine(date, kind, lat, lon, wind, sep) ==
    Join(<<<<"A", "L">>, <<"0", "1">>, date, <<>>, kind, <<>>, lat, lon, wind, <<>>>>, sep)

Comma == <<",">>
CommaSpace == <<",", " ">>

\* AL, 01, 2025061512, , FIX, , 150N, 0700W, 65,
LineFixA == AtcfLine(<<"2", "0", "2", "5", "0", "6", "1", "5", "1", "2">>, <<"F", "I", "X">>, <<"1", "5", "0", "N">>, <<"0", "7", "0", "0", "W">>, <<"6", "5">>, CommaSpace)
\* an earlier date-hour, southern and eastern hemisphere, no wind given
LineFixB == AtcfLine(<<"2", "0", "2", "5", "0", "6", "1", "4", "0", "0">>, <<"B", "E", "S", "T">>, <<"3", "0", "0", "S">>, <<"1", "2", "0", "0", "E">>, <<>>, Comma)
\* a record kind the parser does not take
LineOtherKind == AtcfLine(<<"2", "0", "2", "5", "0", "6", "1", "5", "1", "2">>, <<"C", "A", "R", "Q">>, <<"1", "5", "0", "N">>, <<"0", "7", "0", "0", "W">>, <<"6", "5">>, Comma)
\* a latitude that is only the hemisphere letter: float("") raises
LineBadLat == AtcfLine(<<"2", "0", "2", "5", "0", "6", "1", "5", "1", "2">>, <<"A", "D", "J">>, <<"N">>, <<"0", "7", "0", "0", "W">>, <<"6", "5">>, Comma)
\* month 13: strptime raises
LineBadDate == AtcfLine(<<"2", "0", "2", "5", "1", "3", "3", "0", "1", "2">>, <<"F", "I", "X">>, <<"1", "5", "0", "N">>, <<"0", "7", "0", "0", "W">>, <<"6", "5">>, Comma)
\* nine fields only
LineShort == Join(<<<<"A", "L">>, <<"0", "1">>, <<"2", "0", "2", "5", "0", "6", "1", "5", "1", "2">>, <<>>, <<"F", "I", "X">>, <<>>, <<"1", "5", "0", "N">>, <<"0", "7", "0", "0", "W">>, <<"6", "5">>>>, Comma)
\* 95.0 degrees of latitude, 190.0 degrees of longitude
LineOutOfRange == AtcfLine(<<"2", "0", "2", "5", "0", "6", "1", "5", "1", "2">>, <<"F", "I", "X">>, <<"9", "5", "0", "N">>, <<"1", "9", "0", "0", "E">>, <<"6", "5">>, Comma)
\* coordinates without a hemisphere letter, and an eight-digit date-hour
LineNoLetter == AtcfLine(<<"2", "0", "2", "5", "0", "6", "1", "5">>, <<"F", "I", "X">>, <<"1", "5", "0">>, <<"0", "7", "0", "0">>, <<"3", "0">>, Comma)

LineTexts == {LineFixA, LineFixB, LineOtherKind, LineBadLat, LineBadDate,
              LineShort, LineOutOfRange, LineNoLetter, <<>>}

\* every document of at most MaxLines lines; the empty document is ""
Documents ==
    UNION {{Join(ls, <<"\n">>) : ls \in [1..n -> LineTexts]} : n \in 0..MaxLines}

\* the storm the parser specification parses for
ParseIdentifier == <<"A", "L", "0", "1", "2", "0", "2", "5">>
ParseStormName == <<"A", "N", "D", "R", "E", "A">>
ParseAgency == <<"C", "I", "R", "A", "_", "R", "A", "M", "M", "B">>

-----------------------------------------------------------------------------
(* Values of the variables a specification does not use *)

Idle ==
    /\ data_text = <<>>
    /\ parsed = <<>>
    /\ html_content = <<>>
    /\ unique_storms = <<>>
    /\ active_storms = <<>>
    /\ k = 0
    /\ full_atcf_url = <<>>
    /\ cira_features = <<>>
    /\ all_features = <<>>
    /\ raised = "none"
    /\ response = <<>>
    /\ fetched = <<>>
    /\ outcome = <<>>

-----------------------------------------------------------------------------
(* Parser specification: parse_atcf_text applied to every document *)

InitParse ==
    /\ pc = "parse"
    /\ data_text \in Documents
    /\ parsed = <<>>
    /\ html_content = <<>>
    /\ unique_storms = <<>>
    /\ active_storms = <<>>
    /\ k = 0
    /\ full_atcf_url = <<>>
    /\ cira_features = <<>>
    /\ all_features = <<>>
    /\ raised = "none"
    /\ response = <<>>
    /\ fetched = <<>>
    /\ outcome = <<>>

ParseCall ==
    /\ pc = "parse"
    /\ parsed' = parse_atcf_text(data_text, ParseIdentifier, ParseStormName, ParseAgency)
    /\ pc' = "parsed"
    /\ UNCHANGED <<data_text, html_content, unique_storms, active_storms, k,
                   full_atcf_url, cira_features, all_features, raised, response,
                   fetched, outcome>>

NextParse == ParseCall

SpecParse == InitParse /\ [][NextParse]_vars

\* the lines of the document, top to bottom
DocLines == Split(Strip(data_text), "\n")

\* a line the parser can turn into a fix
LineValid(line) == IsCandidate(Parts(line)) /\ Convert(Parts(line)).ok

ValidLines == {i \in 1..Len(DocLines) : LineValid(DocLines[i])}

Abs(n) == IF n < 0 THEN 0 - n ELSE n

EndsWith(s, suffix) ==
    /\ Len(s) >= Len(suffix)
    /\ SubSeq(s, Len(s) - Len(suffix) + 1, Len(s)) = suffix

\* a feature marked as missing data: its name carries the NO DATA annotation
IsNoData(f) == EndsWith(f.properties.stormName, NoDataSuffix)

\* C2: a document without any line that is a valid fix gives exactly one
\* feature, at (0,0), with wind 0 and a name annotated as missing data.
C2_NoFixGivesPlaceholder ==
    (pc = "parsed" /\ ValidLines = {}) =>
        /\ Len(parsed) = 1
        /\ parsed[1].geometry.coordinates = <<0, 0>>
        /\ parsed[1].properties.maxWindKts = 0
        /\ IsNoData(parsed[1])
        /\ SubSeq(parsed[1].properties.stormName, 1, Len(ParseStormName)) = ParseStormName

\* C2 witness: a parsed document all of whose candidate lines fail conversion
C2_Witness ==
    /\ pc = "parsed"
    /\ ValidLines = {}
    /\ \E i \in 1..Len(DocLines) : IsCandidate(Parts(DocLines[i]))
    /\ Len(parsed) = 1

\* C6: every fix the parser emits lies within [-90, 90] degrees of latitude
\* and [-180, 180] degrees of longitude and has a wind that is not negative.
C6_EmittedFixInRange ==
    pc = "parsed" =>
        \A i \in 1..Len(parsed) :
            ~IsNoData(parsed[i]) =>
                /\ Abs(parsed[i].geometry.coordinates[2]) <= 900
                /\ Abs(parsed[i].geometry.coordinates[1]) <= 1800
                /\ parsed[i].properties.maxWindKts >= 0

\* the claim's reading of a coordinate field: only a trailing hemisphere
\* letter is taken off, and the rest is the magnitude in tenths
ClaimedCoordinate(str, pos, neg) ==
    LET has == Len(str) > 0 /\ str[Len(str)] \in {pos, neg}
        digits == IF has THEN SubSeq(str, 1, Len(str) - 1) ELSE str
    IN  [ok |-> IsDigit(digits),
         val |-> IF has /\ str[Len(str)] = neg THEN 0 - ToInt(digits) ELSE ToInt(digits)]

\* C7: for every line the parser converts, latitude and longitude are the
\* digits before the trailing hemisphere letter in tenths of a degree, negated
\* for S and W, and only an N/S or E/W letter is taken off as that letter.
C7_OnlyHemisphereLetterStripped ==
    pc = "parsed" =>
        \A i \in ValidLines :
            LET parts == Parts(DocLines[i])
                lat == ClaimedCoordinate(parts[7], "N", "S")
                lon == ClaimedCoordinate(parts[8], "E", "W")
            IN  /\ lat.ok /\ Convert(parts).lat_val = lat.val
                /\ lon.ok /\ Convert(parts).lon_val = lon.val

\* C9: when the document has a valid fix line, the feature returned is the
\* one of the valid line nearest the end of the document.
C9_LastValidLineWins ==
    (pc = "parsed" /\ ValidLines # {}) =>
        LET last == CHOOSE i \in ValidLines : \A j \in ValidLines : j <= i
        IN  parsed = <<FixFeature(Convert(Parts(DocLines[last])),
                                  ParseIdentifier, ParseStormName, ParseAgency)>>

\* C9 witness: the later line carries the earlier time and a malformed line
\* follows it; the feature has the later line's position
C9_Witness ==
    /\ pc = "parsed"
    /\ data_text = Join(<<LineFixA, LineFixB, LineBadLat>>, <<"\n">>)
    /\ parsed[1].geometry.coordinates = <<1200, -300>>
    /\ parsed[1].properties.maxWindKts = 0

-----------------------------------------------------------------------------
(* requests.get followed by raise_for_status: what a fetch gives back *)

\* the exceptions a fetch raises: connection failure, timeout, non-success
\* status; response.json() on a body that is not JSON raises JSONDecodeError
TransportErrors == {"ConnectionError", "Timeout", "HTTPError"}

\* requests.exceptions.RequestException is the base class of all of them
IsRequestException(exc) == exc \in TransportErrors \cup {"JSONDecodeError"}

Failure(exc) == [ok |-> FALSE, exc |-> exc, body |-> <<>>]
Success(body) == [ok |-> TRUE, exc |-> "none", body |-> body]

-----------------------------------------------------------------------------
(* get_cira_active_storms *)

\* The listing document is a sequence of storm anchors, one per line:
\*   <a href="storm.asp?storm_identifier=IDENTIFIER">TEXT</a>
\* with IDENTIFIER and TEXT as written in the page.
Anchor(identifier, text) == [identifier |-> identifier, text |-> text]

\* line 161: ([A-Z]{2}\d{4,6}) directly before the closing quote
IdentifierMatches(id) ==
    /\ Len(id) \in 6..8
    /\ id[1] \in Upper /\ id[2] \in Upper
    /\ IsDigit(SubSeq(id, 3, Len(id)))

\* line 161: (.*?)\s?-\s?(.*?)</a> on the anchor text: the text is cut at its
\* first "-", one whitespace character on either side belonging to the cut
AnchorMatches(a) ==
    IdentifierMatches(a.identifier) /\ \E i \in 1..Len(a.text) : a.text[i] = "-"

AnchorGroups(a) ==
    LET t == a.text
        dash == CHOOSE i \in 1..Len(t) : t[i] = "-" /\ \A j \in 1..(i - 1) : t[j] # "-"
        before == IF dash > 1 /\ t[dash - 1] \in Whitespace THEN dash - 2 ELSE dash - 1
        after == IF dash < Len(t) /\ t[dash + 1] \in Whitespace THEN dash + 2 ELSE dash + 1
    IN  [identifier |-> a.identifier,
         full_name |-> SubSeq(t, 1, before),
         name_only |-> SubSeq(t, after, Len(t))]

\* lines 164-167: one (identifier, final_name) per match, in document order
RECURSIVE StormList(_)
StormList(anchors) ==
    IF anchors = <<>> THEN <<>>
    ELSE IF AnchorMatches(Head(anchors))
    THEN LET g == AnchorGroups(Head(anchors))
             final_name == IF Strip(g.name_only) # <<>> THEN Strip(g.name_only)
                           ELSE Strip(g.full_name)
         IN  <<<<g.identifier, final_name>>>> \o StormList(Tail(anchors))
    ELSE StormList(Tail(anchors))

ToSet(seq) == {seq[i] : i \in 1..Len(seq)}

\* the lists that hold every element of S once
Orderings(S) ==
    {f \in [1..Cardinality(S) -> S] : \A i, j \in 1..Cardinality(S) : f[i] = f[j] => i = j}

\* line 173: list(set(storm_list)); the order of a set is not fixed, so every
\* order is a possible result
UniqueStorms_keep_all(storm_list) == {storm_list}
UniqueStorms(storm_list) == Orderings(ToSet(storm_list))

\* lines 151-175: the possible results for one answer of the index fetch; any
\* exception leaves storm_list empty
get_cira_active_storms(index_response) ==
    UniqueStorms(IF index_response.ok THEN StormList(index_response.body) ELSE <<>>)

-----------------------------------------------------------------------------
(* Listing documents given to discovery *)

IdAL == <<"A", "L", "0", "1", "2", "0", "2", "5">>
IdSH == <<"S", "H", "9", "7", "2", "5">>

Anchors ==
    {Anchor(IdAL, <<"A", "L", " ", "-", " ", "A", "N", "A">>),      \* AL012025 - ANA
     Anchor(IdAL, <<"A", "L", "-", "A", "N", "A">>),      \* the same storm written without spaces
     Anchor(IdAL, <<"A", "L", " ", "-", " ", "B", "O", "B">>),      \* the same identifier under another name
     Anchor(IdSH, <<"S", "H", " ", "-", " ">>),      \* nothing after the separator
     Anchor(<<"a", "l", "0", "1", "2", "0", "2", "5">>, <<"A", "L", " ", "-", " ", "A", "N", "A">>),    \* lower-case basin code: no match
     Anchor(IdSH, <<"B", "O", "B">>)}      \* no separator: no match

Listings(n) == UNION {[1..m -> Anchors] : m \in 0..n}

IndexResponses(n) ==
    {Failure(e) : e \in TransportErrors} \cup {Success(l) : l \in Listings(n)}

-----------------------------------------------------------------------------
(* Discovery specification: get_cira_active_storms on every listing *)

InitDiscover ==
    /\ pc = "discover"
    /\ html_content \in IndexResponses(MaxAnchors)
    /\ data_text = <<>>
    /\ parsed = <<>>
    /\ unique_storms = <<>>
    /\ active_storms = <<>>
    /\ k = 0
    /\ full_atcf_url = <<>>
    /\ cira_features = <<>>
    /\ all_features = <<>>
    /\ raised = "none"
    /\ response = <<>>
    /\ fetched = <<>>
    /\ outcome = <<>>

DiscoverCall ==
    /\ pc = "discover"
    /\ \E lst \in get_cira_active_storms(html_content) : unique_storms' = lst
    /\ pc' = "discovered"
    /\ UNCHANGED <<data_text, parsed, html_content, active_storms, k,
                   full_atcf_url, cira_features, all_features, raised, response,
                   fetched, outcome>>

NextDiscover == DiscoverCall

SpecDiscover == InitDiscover /\ [][NextDiscover]_vars

\* the display name of a matching anchor, as the spec words it: what follows
\* the separator, or the text before it when nothing follows
DisplayName(a) ==
    LET g == AnchorGroups(a)
    IN  IF Strip(g.name_only) # <<>> THEN Strip(g.name_only) ELSE Strip(g.full_name)

\* the distinct (identifier, displayName) pairs of the listing
DistinctPairs ==
    IF html_content.ok
    THEN {<<html_content.body[i].identifier, DisplayName(html_content.body[i])>> :
            i \in {j \in 1..Len(html_content.body) : AnchorMatches(html_content.body[j])}}
    ELSE {}

\* C8: discovery returns one entry per distinct (identifier, displayName)
\* pair of the listing, however often the pair occurs, and none otherwise.
C8_OneEntryPerDistinctPair ==
    pc = "discovered" =>
        /\ Len(unique_storms) = Cardinality(DistinctPairs)
        /\ ToSet(unique_storms) = DistinctPairs

\* C8 witness: a pair that occurs twice among three matches gives two entries
C8_Witness ==
    /\ pc = "discovered"
    /\ html_content.ok
    /\ Len(html_content.body) = 3
    /\ \A i \in 1..3 : AnchorMatches(html_content.body[i])
    /\ html_content.body[1] # html_content.body[2]
    /\ Cardinality(DistinctPairs) = 2
    /\ Len(unique_storms) = 2

-----------------------------------------------------------------------------
(* scrape_cira_data: resolving a storm's advisory file *)

\* A detail page is the sequence of its links.  `pattern` says which of the
\* two expressions of lines 205-218 the link matches ("atcf", "tc_vitals") or
\* that it matches neither ("other"); `path` is the captured href.
Link(pattern, path) == [pattern |-> pattern, path |-> path]

AtcfLink == Link("atcf", "/tc_realtime/products/2025/AL012025/atcf/AL012025_atcf.txt")
VitalsLink == Link("tc_vitals", "/tc_realtime/products/2025/AL012025/tc_vitals/AL012025.txt")
OtherLink == Link("other", "/tc_realtime/storm.asp")

\* re.search: the first link of the page that matches, as a list of 0 or 1
Search(pattern, page) ==
    LET hits == {i \in 1..Len(page) : page[i].pattern = pattern}
    IN  IF hits = {} THEN <<>>
        ELSE <<page[CHOOSE i \in hits : \A j \in hits : i <= j]>>

\* lines 205-218: the atcf expression first, the tc_vitals one when it fails
atcf_link_match_vitals_first(page) ==
    IF Search("tc_vitals", page) # <<>> THEN Search("tc_vitals", page)
    ELSE Search("atcf", page)
atcf_link_match(page) ==
    IF Search("atcf", page) # <<>> THEN Search("atcf", page)
    ELSE Search("tc_vitals", page)

\* lines 221-222: the href against the provider's origin
AdvisoryUrl(link) == [origin |-> "https://rammb-data.cira.colostate.edu", path |-> link.path]

\* line 190
StormPageUrl(identifier) ==
    [origin |-> "https://rammb-data.cira.colostate.edu/tc_realtime",
     path |-> <<"/storm_experimental.asp?storm_identifier=", identifier>>]

\* line 238: the handler around one storm's fetches
scrape_catches_timeout_only(exc) == exc = "Timeout"
scrape_catches(exc) == IsRequestException(exc)

\* line 294: the handler around one agency
combine_catches_timeout_only(exc) == exc = "Timeout"
combine_catches(exc) == IsRequestException(exc)

-----------------------------------------------------------------------------
(* combine_all_data: the other agencies and the collection *)

CIRA_RAMMB == <<"C", "I", "R", "A", "_", "R", "A", "M", "M", "B">>
NOAA == <<"N", "O", "A", "A">>
JTWC == <<"J", "T", "W", "C">>

\* lines 52-61
NoaaMockFeature(agency) ==
    [type |-> "Feature",
     geometry |-> [type |-> "Point", coordinates |-> <<0, 0>>],
     properties |-> [stormName |-> <<"T", "E", "S", "T", " ", "S", "T", "O", "R", "M", " ", "(">> \o agency \o <<")">>,
                     maxWindKts |-> 0,
                     advisoryTime |-> UtcNow,
                     source_agency |-> agency]]

\* lines 42-44: features are taken until one has no 'properties' (the
\* KeyError ends the loop, line 45); each taken one gets source_agency
RECURSIVE TakeFeatures(_, _)
TakeFeatures(data, agency) ==
    IF data = <<>> \/ "properties" \notin DOMAIN Head(data) THEN <<>>
    ELSE LET f == Head(data)
             props == [x \in DOMAIN f.properties \cup {"source_agency"} |->
                         IF x = "source_agency" THEN agency ELSE f.properties[x]]
         IN  <<[f EXCEPT !.properties = props]>> \o TakeFeatures(Tail(data), agency)

\* lines 33-62
parse_noaa_geojson(data, agency) ==
    IF TakeFeatures(data, agency) = <<>> THEN <<NoaaMockFeature(agency)>>
    ELSE TakeFeatures(data, agency)

\* lines 274-284
JtwcMockFeature ==
    [type |-> "Feature",
     geometry |-> [type |-> "Point", coordinates |-> <<500, 500>>],
     properties |-> [stormId |-> <<"W", "P", "0", "1", "2", "0", "2", "5">>,
                     stormName |-> <<"M", "O", "C", "K", " ", "S", "T", "O", "R", "M", " ", "J", "T", "W", "C">>,
                     maxWindKts |-> 85,
                     advisoryTime |-> UtcNow,
                     source_agency |-> JTWC]]

\* lines 298-306
FinalGeojson(features) ==
    [type |-> "FeatureCollection",
     metadata |-> [updated_at |-> UtcNow,
                   total_features |-> Len(features),
                   source_type |-> "Aggregated Tropical Cyclone Feeds"],
     features |-> features]

\* main.py lines 28-33
ErrorBody(exc) == [error |-> "Failed to fetch storm data", details |-> exc]

-----------------------------------------------------------------------------
(* What the fetches of the pipeline can answer *)

DetailPages == {<<OtherLink>>, <<AtcfLink>>, <<VitalsLink>>, <<VitalsLink, AtcfLink>>}

DetailResponses ==
    {Failure(e) : e \in {"Timeout", "HTTPError"}} \cup {Success(p) : p \in DetailPages}

AdvisoryTexts == {<<>>, LineFixA, Join(<<LineFixB, LineBadLat>>, <<"\n">>)}

AdvisoryResponses ==
    {Failure(e) : e \in {"Timeout", "HTTPError"}} \cup {Success(t) : t \in AdvisoryTexts}

\* a feature of the NOAA feed, and one without 'properties'
NoaaFeature ==
    [type |-> "Feature",
     geometry |-> [type |-> "Point", coordinates |-> <<-800, 250>>],
     properties |-> [stormId |-> <<"A", "L", "0", "5", "2", "0", "2", "5">>,
                     stormName |-> <<"E", "R", "I", "N">>,
                     maxWindKts |-> 40,
                     advisoryTime |-> UtcNow]]
NoaaBare == [type |-> "Feature"]

\* the feed's answers: no answer, a body that is not JSON, and JSON bodies
NoaaResponses ==
    {Failure("HTTPError"), Failure("JSONDecodeError"),
     Success(<<>>), Success(<<NoaaFeature, NoaaBare>>)}

NotFetched == [ok |-> FALSE, exc |-> "not fetched", body |-> <<>>]

-----------------------------------------------------------------------------
(* The pipeline: GET /storms -> combine_all_data -> scrape_cira_data *)

Init ==
    /\ pc = "idle"
    /\ Idle

Fetch(what, storm, url, resp) == [what |-> what, storm |-> storm, url |-> url, ok |-> resp.ok]

IndexUrl == [origin |-> "https://rammb-data.cira.colostate.edu/tc_realtime", path |-> "/"]
NoaaUrl == [origin |-> "https://www.nhc.noaa.gov", path |-> "/json/AL_Current.json"]

\* storm k is finished and added `added`: the loop goes on to the next storm,
\* or ends, scrape_cira_data returns (line 241) and combine_all_data extends
\* its list (line 289) and turns to the next agency
StormDone(added) ==
    /\ cira_features' = cira_features \o added
    /\ full_atcf_url' = <<>>
    /\ UNCHANGED <<raised, response>>
    /\ IF k < Len(active_storms)
       THEN /\ k' = k + 1
            /\ pc' = "detail"
            /\ UNCHANGED all_features
       ELSE /\ k' = k
            /\ pc' = "noaa"
            /\ all_features' = all_features \o cira_features'

\* an exception leaves an agency's branch of combine_all_data: the handler
\* of line 294 takes it and the agency adds nothing, or it reaches get_storms,
\* whose handler (main.py line 28) answers with the error body
AgencyRaises(exc, next) ==
    /\ UNCHANGED <<all_features, k>>
    /\ IF combine_catches(exc)
       THEN /\ pc' = next
            /\ UNCHANGED <<raised, response>>
       ELSE /\ pc' = "done"
            /\ raised' = exc
            /\ response' = ErrorBody(exc)

\* get_storms is called; combine_all_data starts with CIRA_RAMMB, and
\* scrape_cira_data fetches the index (lines 183, 151-175)
GetStorms ==
    /\ pc = "idle"
    /\ \E resp \in IndexResponses(MaxStorms) :
        \E lst \in get_cira_active_storms(resp) :
            /\ active_storms' = lst
            /\ fetched' = Append(fetched, Fetch("index", 0, IndexUrl, resp))
            /\ IF lst = <<>>
               THEN pc' = "noaa" /\ k' = 0
               ELSE pc' = "detail" /\ k' = 1
    /\ UNCHANGED <<data_text, parsed, html_content, unique_storms, full_atcf_url,
                   cira_features, all_features, raised, response, outcome>>

\* lines 190-220, 235-239: the detail page of storm k
FetchDetail ==
    /\ pc = "detail"
    /\ \E resp \in DetailResponses :
        /\ fetched' = Append(fetched,
                             Fetch("detail", k, StormPageUrl(active_storms[k][1]), resp))
        /\ outcome' = Append(outcome, [detail |-> resp, advisory |-> NotFetched])
        /\ IF ~resp.ok
           THEN IF scrape_catches(resp.exc)
                THEN StormDone(<<>>)
                ELSE AgencyRaises(resp.exc, "noaa")
                     /\ UNCHANGED <<cira_features, full_atcf_url>>
           ELSE IF atcf_link_match(resp.body) = <<>>
                THEN StormDone(<<>>)
                ELSE /\ full_atcf_url' = AdvisoryUrl(atcf_link_match(resp.body)[1])
                     /\ pc' = "advisory"
                     /\ UNCHANGED <<k, cira_features, all_features, raised, response>>
    /\ UNCHANGED <<data_text, parsed, html_content, unique_storms, active_storms>>

\* lines 227-233, 238-239: the advisory file of storm k
FetchAdvisory ==
    /\ pc = "advisory"
    /\ \E resp \in AdvisoryResponses :
        /\ fetched' = Append(fetched, Fetch("advisory", k, full_atcf_url, resp))
        /\ outcome' = [outcome EXCEPT ![k].advisory = resp]
        /\ IF ~resp.ok
           THEN IF scrape_catches(resp.exc)
                THEN StormDone(<<>>)
                ELSE AgencyRaises(resp.exc, "noaa")
                     /\ UNCHANGED <<cira_features, full_atcf_url>>
           ELSE StormDone(parse_atcf_text(resp.body, active_storms[k][1],
                                          active_storms[k][2], CIRA_RAMMB))
    /\ UNCHANGED <<data_text, parsed, html_content, unique_storms, active_storms>>

\* lines 261-265, 289: the NOAA feed
FetchNoaa ==
    /\ pc = "noaa"
    /\ \E resp \in NoaaResponses :
        /\ fetched' = Append(fetched, Fetch("noaa", 0, NoaaUrl, resp))
        /\ IF ~resp.ok
           THEN AgencyRaises(resp.exc, "jtwc")
           ELSE /\ all_features' = all_features \o parse_noaa_geojson(resp.body, NOAA)
                /\ pc' = "jtwc"
                /\ UNCHANGED <<k, raised, response>>
    /\ UNCHANGED <<data_text, parsed, html_content, unique_storms, active_storms,
                   full_atcf_url, cira_features, outcome>>

\* lines 267-308 and main.py lines 26-27: the JTWC mock feature, the
\* collection, and the answer to the caller
ReturnCollection ==
    /\ pc = "jtwc"
    /\ all_features' = all_features \o <<JtwcMockFeature>>
    /\ response' = FinalGeojson(all_features')
    /\ pc' = "done"
    /\ UNCHANGED <<data_text, parsed, html_content, unique_storms, active_storms, k,
                   full_atcf_url, cira_features, raised, fetched, outcome>>

Next == GetStorms \/ FetchDetail \/ FetchAdvisory \/ FetchNoaa \/ ReturnCollection

Spec == Init /\ [][Next]_vars

-----------------------------------------------------------------------------
(* Properties of the pipeline *)

\* the scrape loop is over
ScrapeOver == pc \in {"noaa", "jtwc", "done"}

\* what one storm adds, from the answers to its own two fetches alone
Contribution(storm, o) ==
    IF o.detail.ok /\ o.advisory.ok
    THEN parse_atcf_text(o.advisory.body, storm[1], storm[2], CIRA_RAMMB)
    ELSE <<>>

RECURSIVE Contributions(_)
Contributions(n) ==
    IF n = 0 THEN <<>>
    ELSE Contributions(n - 1) \o Contribution(active_storms[n], outcome[n])

\* C1: the features scrape_cira_data returns hold exactly one feature per
\* discovered storm, whatever the storm's fetches answered.
C1_OneFeaturePerStorm ==
    ScrapeOver =>
        /\ Len(outcome) = Len(active_storms)
        /\ \A j \in 1..Len(active_storms) :
              Len(Contribution(active_storms[j], outcome[j])) = 1
        /\ Len(cira_features) = Len(active_storms)

RequiredProperties == {"stormId", "stormName", "maxWindKts", "advisoryTime", "source_agency"}

\* C3: every feature of the returned collection has a Point geometry and all
\* of stormId, stormName, maxWindKts, advisoryTime, source_agency, and the
\* stormId of a scraped feature is the identifier of one of the storms.
C3_EveryFeatureComplete ==
    (pc = "done" /\ raised = "none") =>
        /\ \A i \in 1..Len(response.features) :
              /\ response.features[i].geometry.type = "Point"
              /\ RequiredProperties \subseteq DOMAIN response.features[i].properties
        /\ \A i \in 1..Len(cira_features) :
              \E j \in 1..Len(active_storms) :
                  cira_features[i].properties.stormId = active_storms[j][1]

\* C4: a failed fetch of one storm never ends the run: nothing is raised,
\* every discovered storm has been taken up once the loop is over, and the
\* features are the storms' own contributions, each decided by the answers
\* to that storm's fetches only.
C4_FailureStaysLocal ==
    /\ raised = "none"
    /\ (ScrapeOver => Len(outcome) = Len(active_storms))
    /\ (pc = "detail" => Len(outcome) = k - 1)
    /\ (pc = "advisory" => Len(outcome) = k)
    /\ (pc # "idle" => cira_features = Contributions(Len(outcome)))
    /\ (pc = "done" =>
          SubSeq(response.features, 1, Len(cira_features)) = cira_features)

\* C4 witness: the first storm's detail fetch failed and the second storm's
\* fix is in the answer
C4_Witness ==
    /\ pc = "done"
    /\ Len(active_storms) = 2
    /\ ~outcome[1].detail.ok
    /\ outcome[2].advisory.ok
    /\ Len(cira_features) = 1
    /\ ~IsNoData(response.features[1])
    /\ response.features[1].properties.stormId = active_storms[2][1]

\* C5: whatever the fetches answered, the caller receives a FeatureCollection
\* whose total_features is the number of its features, and no failure.
C5_AlwaysWellFormedCollection ==
    pc = "done" =>
        /\ raised = "none"
        /\ DOMAIN response = {"type", "metadata", "features"}
        /\ response.type = "FeatureCollection"
        /\ response.metadata.total_features = Len(response.features)

\* C5 witness: the listing could not be fetched, the NOAA feed neither, and
\* the caller holds a collection
C5_Witness ==
    /\ pc = "done"
    /\ \A i \in 1..Len(fetched) : ~fetched[i].ok
    /\ active_storms = <<>>
    /\ response.type = "FeatureCollection"
    /\ response.metadata.total_features = 1

HasLink(pattern, page) == \E i \in 1..Len(page) : page[i].pattern = pattern

\* C10: an advisory file is fetched only after the storm's detail page was
\* fetched successfully; the address is the page's atcf link when it has one,
\* also beside a tc_vitals link, and the tc_vitals link only when it has none.
C10_PrimaryLinkFirst ==
    \A i \in 1..Len(fetched) :
        fetched[i].what = "advisory" =>
            LET j == fetched[i].storm
                page == outcome[j].detail.body
            IN  /\ \E h \in 1..(i - 1) :
                      fetched[h].what = "detail" /\ fetched[h].storm = j /\ fetched[h].ok
                /\ outcome[j].detail.ok
                /\ HasLink("atcf", page) \/ HasLink("tc_vitals", page)
                /\ HasLink("atcf", page) =>
                      fetched[i].url = AdvisoryUrl(Search("atcf", page)[1])
                /\ ~HasLink("atcf", page) =>
                      fetched[i].url = AdvisoryUrl(Search("tc_vitals", page)[1])

\* C10 witness: the tc_vitals link comes first on the page and the atcf link
\* is the one fetched
C10_Witness ==
    \E i \in 1..Len(fetched) :
        /\ fetched[i].what = "advisory"
        /\ outcome[fetched[i].storm].detail.body = <<VitalsLink, AtcfLink>>
        /\ fetched[i].url.path = AtcfLink.path

====
